---------------------------- MODULE Spec2Model ----------------------------
(***************************************************************************)
(* AgentAudit MCP server: the operation handlers (check_package,           *)
(* scan_config, search_packages, get_stats, register, submit_report), the  *)
(* HTTP client adapter apiFetch, the lookup fetchSkill and the formatter   *)
(* formatResult, as a state machine.  One handler invocation is followed   *)
(* from its call to its return; the remote service and the timers are the  *)
(* environment.                                                            *)
(***************************************************************************)
EXTENDS Integers, Sequences, FiniteSets, TLC

(***************************************************************************)
(* JavaScript values.  Every scalar is a record [t, s, n]: t is the type   *)
(* tag, s the text of a string, n the value of a number.                   *)
(***************************************************************************)
Undef == [t |-> "undefined", s |-> "", n |-> 0]

Null == [t |-> "null", s |-> "", n |-> 0]

Str(x) == [t |-> "string", s |-> x, n |-> 0]

Num(x) == [t |-> "number", s |-> "", n |-> x]

\* a ?? b
Coalesce(v, d) == IF v.t \in {"undefined", "null"} THEN d ELSE v

\* the truthiness test of `if (v)`, `!v` and `a || b`
Truthy(v) ==
    CASE v.t = "string" -> v.s /= ""
      [] v.t = "number" -> v.n /= 0
      [] v.t \in {"object", "array"} -> TRUE
      [] OTHER -> FALSE

\* `${v}` inside a template literal
Render(v) ==
    CASE v.t = "string" -> v.s
      [] v.t = "number" -> ToString(v.n)
      [] v.t = "null" -> "null"
      [] OTHER -> "undefined"

(***************************************************************************)
(* Parsed JSON payloads.  A payload is [t, s, n, o, a]: o holds the        *)
(* properties of an object (Undef for an absent one), a the elements of    *)
(* an array.  Reading a property of a non-object scalar gives undefined.   *)
(***************************************************************************)
Fields ==
    {"slug", "display_name", "trust_score", "latest_risk_score", "latest_result",
     "total_findings", "total_reports", "scan_type", "source_url",
     "first_audited_at", "last_audited_at"}

NoProps == [f \in Fields |-> Undef]

JNull == [t |-> "null", s |-> "", n |-> 0, o |-> NoProps, a |-> << >>]

JNum(x) == [t |-> "number", s |-> "", n |-> x, o |-> NoProps, a |-> << >>]

JObj(props) == [t |-> "object", s |-> "", n |-> 0, o |-> props, a |-> << >>]

JArr(items) == [t |-> "array", s |-> "", n |-> 0, o |-> NoProps, a |-> items]

\* data.f
Prop(data, f) == IF data.t = "object" THEN data.o[f] ELSE Undef

(***************************************************************************)
(* String conversions used by the formatter, on the strings of the model.  *)
(***************************************************************************)
\* String.prototype.toUpperCase
ToUpperCase(x) ==
    CASE x = "pass" -> "PASS"
      [] x = "unsafe" -> "UNSAFE"
      [] x = "unknown" -> "UNKNOWN"
      [] x = "error" -> "ERROR"
      [] OTHER -> x

\* new Date(x): whether the time value is a number (not NaN)
ValidDate(x) == x \in {"2026-02-02T09:30:00.000Z", "2025-12-31"}

\* new Date(x).toISOString().split("T")[0], for a valid date
IsoDay(x) ==
    CASE x = "2026-02-02T09:30:00.000Z" -> "2026-02-02"
      [] x = "2025-12-31" -> "2025-12-31"
      [] OTHER -> "NaN"

(***************************************************************************)
(* riskEmoji                                                               *)
(***************************************************************************)
riskEmoji(score) ==
    IF score.t = "null" THEN "unknown"
    ELSE IF score.t = "number" /\ score.n >= 70 THEN "high"
    ELSE IF score.t = "number" /\ score.n >= 40 THEN "medium"
    ELSE "low"

(***************************************************************************)
(* formatResult.  The result is [threw, lines]: threw is TRUE when the     *)
(* call raises (toUpperCase of a non-string, toISOString of an invalid     *)
(* date); lines are the lines pushed, each [k, v] with k the line's kind   *)
(* and v the texts interpolated into it.  Timestamps are strings or null.  *)
(***************************************************************************)
Line(k, v) == [k |-> k, v |-> v]

formatResult(r) ==
    LET head == Line("header", <<riskEmoji(r.latest_risk_score),
                                 Render(r.display_name), Render(r.scan_type)>>)
        date == IF Truthy(r.last_audited_at)
                THEN <<Line("last_audited", <<IsoDay(r.last_audited_at.s)>>)>>
                ELSE << >>
        src == IF Truthy(r.source_url)
               THEN <<Line("source", <<Render(r.source_url)>>)>>
               ELSE << >>
        raises == \/ r.latest_result.t /= "string"
                  \/ Truthy(r.last_audited_at) /\ ~ValidDate(r.last_audited_at.s)
    IN  IF Truthy(r.error)
        THEN [threw |-> FALSE, lines |-> <<head, Line("warning", <<Render(r.error)>>)>>]
        ELSE IF raises
        THEN [threw |-> TRUE, lines |-> << >>]
        ELSE [threw |-> FALSE,
              lines |-> <<head,
                          Line("trust", <<Render(Coalesce(r.trust_score, Str("N/A")))>>),
                          Line("risk", <<Render(Coalesce(r.latest_risk_score, Str("N/A")))>>),
                          Line("verdict", <<ToUpperCase(r.latest_result.s)>>),
                          Line("findings", <<Render(r.total_findings), Render(r.total_reports),
                                             IF r.total_reports /= Num(1) THEN "audits" ELSE "audit">>)>>
                        \o src \o date
                        \o <<Line("details", <<Render(r.slug)>>)>>]

(***************************************************************************)
(* HTTP responses.  A body is [cls, text, val]: cls tells how the text     *)
(* begins ("doctype": "<!DOCTYPE", "htmltag": "<html", "text": any other   *)
(* text that is not JSON, "json": a JSON document), val is the value a     *)
(* JSON document parses to.                                                *)
(***************************************************************************)
MkBody(cls, text, val) == [cls |-> cls, text |-> text, val |-> val]

NoBody == MkBody("none", "", JNull)

DoctypeBody == MkBody("doctype", "<!DOCTYPE html><title>404</title>", JNull)

HtmlTagBody == MkBody("htmltag", "<html><body>Not Found</body></html>", JNull)

PlainBody == MkBody("text", "Internal Server Error", JNull)

\* a plain-text error page longer than the excerpt an error message keeps
LongBody ==
    MkBody("text", "upstream connect error or disconnect/reset before headers. reset reason: connection failure, transport failure reason: delayed connect error: 111. The gateway could not reach the audit service; retry later or contact the operator of this deployment (ref 7f3a9c).", JNull)

JsonBody(val) == MkBody("json", "{json}", val)

\* String.prototype.startsWith
StartsWith(x, prefix) == Len(x) >= Len(prefix) /\ SubSeq(x, 1, Len(prefix)) = prefix

\* text.startsWith("<!DOCTYPE") || text.startsWith("<html")
LooksLikeHtml(body) == StartsWith(body.text, "<!DOCTYPE") \/ StartsWith(body.text, "<html")

\* res.ok
StatusOk(status) == status >= 200 /\ status <= 299

(***************************************************************************)
(* The outcome of an awaited call: a returned value or a thrown error.     *)
(***************************************************************************)
Pending == [kind |-> "pending", val |-> JNull, msg |-> ""]

Return(val) == [kind |-> "value", val |-> val, msg |-> ""]

Throw(msg) == [kind |-> "throw", val |-> JNull, msg |-> msg]

AbortMsg == "This operation was aborted"

NetworkMsg == "fetch failed"

BodyReadMsg == "terminated"

ParseMsg == "Unexpected token in JSON"

\* the number of characters of the body an error message keeps
ExcerptLen == 200

\* text.slice(0, 200)
Excerpt(x) == IF Len(x) <= ExcerptLen THEN x ELSE SubSeq(x, 1, ExcerptLen)

\* the message with the whole body in it
HttpMsgWholeBody(status, body) == "HTTP " \o ToString(status) \o ": " \o body.text

\* `HTTP ${res.status}: ${text.slice(0, 200)}`
HttpMsg(status, body) == "HTTP " \o ToString(status) \o ": " \o Excerpt(body.text)

\* apiFetch from the arrival of the body on: lines 34-46
apiFetchBody(status, body) ==
    IF ~StatusOk(status)
    THEN IF LooksLikeHtml(body) THEN Return(JNull) ELSE Throw(HttpMsg(status, body))
    ELSE IF LooksLikeHtml(body) THEN Return(JNull)
    ELSE IF body.cls = "json" THEN Return(body.val)
    ELSE Throw(ParseMsg)

\* res.json() of a plain fetch (register, submit_report)
resJson(body) == IF body.cls = "json" THEN Return(body.val) ELSE Throw(ParseMsg)

(***************************************************************************)
(* fetchSkill, from the outcome of its apiFetch call on.                   *)
(***************************************************************************)
NotFoundMsg == "Package not found in AgentAudit database"

\* !data
Falsy(data) ==
    \/ data.t \in {"null", "undefined"}
    \/ data.t = "number" /\ data.n = 0
    \/ data.t = "string" /\ data.s = ""

FailedRecord(name, verdict, msg) ==
    [slug |-> Str(name), display_name |-> Str(name), trust_score |-> Null,
     latest_risk_score |-> Null, latest_result |-> Str(verdict),
     total_findings |-> Num(0), total_reports |-> Num(0), scan_type |-> Str("unknown"),
     source_url |-> Null, first_audited_at |-> Null, last_audited_at |-> Null,
     error |-> Str(msg)]

MappedRecord(name, data) ==
    [slug |-> Coalesce(Prop(data, "slug"), Str(name)),
     display_name |-> Coalesce(Prop(data, "display_name"), Str(name)),
     trust_score |-> Coalesce(Prop(data, "trust_score"), Null),
     latest_risk_score |-> Coalesce(Prop(data, "latest_risk_score"), Null),
     latest_result |-> Coalesce(Prop(data, "latest_result"), Str("unknown")),
     total_findings |-> Coalesce(Prop(data, "total_findings"), Num(0)),
     total_reports |-> Coalesce(Prop(data, "total_reports"), Num(0)),
     scan_type |-> Coalesce(Prop(data, "scan_type"), Str("unknown")),
     source_url |-> Coalesce(Prop(data, "source_url"), Null),
     first_audited_at |-> Coalesce(Prop(data, "first_audited_at"), Null),
     last_audited_at |-> Coalesce(Prop(data, "last_audited_at"), Null),
     error |-> Undef]

fetchSkill(name, ret) ==
    IF ret.kind = "throw" THEN FailedRecord(name, "error", ret.msg)
    ELSE IF Falsy(ret.val) THEN FailedRecord(name, "unknown", NotFoundMsg)
    ELSE MappedRecord(name, ret.val)

(***************************************************************************)
(* The config file and extractPackagesFromConfig.  A file is               *)
(* [exists, json, mcpServers, mcp_servers]: json tells whether the text    *)
(* parses; each server map is Undef-like (def = FALSE) or a sequence of    *)
(* entries [key, isObj, hasArgs, args] in the order of Object.entries;     *)
(* args holds scalars (a non-string argument makes startsWith raise).      *)
(***************************************************************************)
NoServers == [def |-> FALSE, entries |-> << >>]

Servers(entries) == [def |-> TRUE, entries |-> entries]

Entry(key, args) == [key |-> key, isObj |-> TRUE, hasArgs |-> TRUE, args |-> args]

EntryNoArgs(key) == [key |-> key, isObj |-> TRUE, hasArgs |-> FALSE, args |-> << >>]

EntryNull(key) == [key |-> key, isObj |-> FALSE, hasArgs |-> FALSE, args |-> << >>]

\* the first character of a string ("" for the empty string), which decides
\* arg.startsWith("-"), arg.startsWith("/"), arg.startsWith(".") and /^[a-z@]/
FirstChar(x) == IF x = "" THEN "" ELSE SubSeq(x, 1, 1)

LowerOrAt ==
    {"a", "b", "c", "d", "e", "f", "g", "h", "i", "j", "k", "l", "m", "n", "o",
     "p", "q", "r", "s", "t", "u", "v", "w", "x", "y", "z", "@"}

\* the test of line 117 alone, without the exclusions of line 118
AcceptArgNoLaunchers(arg) ==
    /\ FirstChar(arg) /= "-" /\ FirstChar(arg) /= "/" /\ FirstChar(arg) /= "."
    /\ FirstChar(arg) \in LowerOrAt

\* the test of lines 117-118 on one argument
AcceptArg(arg) ==
    /\ FirstChar(arg) /= "-" /\ FirstChar(arg) /= "/" /\ FirstChar(arg) /= "."
    /\ FirstChar(arg) \in LowerOrAt
    /\ arg /= "-y" /\ arg /= "node" /\ arg /= "npx"

RECURSIVE ArgsOf(_)
\* the inner loop: the accepted arguments of one entry, in order
ArgsOf(args) ==
    IF args = << >> THEN << >>
    ELSE (IF AcceptArg(Head(args).s) THEN <<Head(args).s>> ELSE << >>) \o ArgsOf(Tail(args))

RECURSIVE PushedKeyFirst(_)
\* an outer loop that pushes the key before the entry's arguments
PushedKeyFirst(entries) ==
    IF entries = << >> THEN << >>
    ELSE <<Head(entries).key>> \o ArgsOf(Head(entries).args) \o PushedKeyFirst(Tail(entries))

RECURSIVE PushedArgsOnly(_)
\* an outer loop without the push of line 123
PushedArgsOnly(entries) ==
    IF entries = << >> THEN << >>
    ELSE ArgsOf(Head(entries).args) \o PushedArgsOnly(Tail(entries))

RECURSIVE Pushed(_)
\* the outer loop: what is pushed to `packages`, in order
Pushed(entries) ==
    IF entries = << >> THEN << >>
    ELSE ArgsOf(Head(entries).args) \o <<Head(entries).key>> \o Pushed(Tail(entries))

RECURSIVE DedupKeepLast(_, _)
\* a deduplication that keeps the last occurrence of each element
DedupKeepLast(xs, seen) ==
    IF xs = << >> THEN << >>
    ELSE IF \E i \in 2..Len(xs) : xs[i] = Head(xs) THEN DedupKeepLast(Tail(xs), seen)
    ELSE <<Head(xs)>> \o DedupKeepLast(Tail(xs), seen)

RECURSIVE Dedup(_, _)
\* [...new Set(packages)]: first occurrences, in insertion order
Dedup(xs, seen) ==
    IF xs = << >> THEN << >>
    ELSE IF Head(xs) \in seen THEN Dedup(Tail(xs), seen)
    ELSE <<Head(xs)>> \o Dedup(Tail(xs), seen \cup {Head(xs)})

\* config.mcpServers ?? config.mcp_servers ?? {}
ServerMap(file) ==
    IF file.mcpServers.def THEN file.mcpServers.entries
    ELSE IF file.mcp_servers.def THEN file.mcp_servers.entries
    ELSE << >>

\* whether extractPackagesFromConfig raises: JSON.parse of a bad text, val.args
\* of a null entry, arg.startsWith of a non-string argument
ExtractRaises(file) ==
    \/ ~file.json
    \/ \E i \in 1..Len(ServerMap(file)) :
          LET e == ServerMap(file)[i]
          IN  \/ ~e.isObj
              \/ \E j \in 1..Len(e.args) : e.args[j].t /= "string"

extractPackagesFromConfig(file) == Dedup(Pushed(ServerMap(file)), {})

(***************************************************************************)
(* scan_config: the elevated-risk filter and the sort of line 168.         *)
(***************************************************************************)
\* the filter with a strict comparison, r.latest_risk_score > 40
IsRiskyStrict(r) == ~Truthy(r.error) /\ Coalesce(r.latest_risk_score, Num(0)).n > 40

\* r => !r.error && (r.latest_risk_score ?? 0) >= 40
IsRisky(r) == ~Truthy(r.error) /\ Coalesce(r.latest_risk_score, Num(0)).n >= 40

\* the key with a missing score defaulted to 0 instead of -1
SortKeyNullAsZero(r) == Coalesce(r.latest_risk_score, Num(0)).n

\* b.latest_risk_score ?? -1, the key of the comparator
SortKey(r) == Coalesce(r.latest_risk_score, Num(-1)).n

\* the comparator (a, b) => key(b) - key(a): positive when a must follow b
Compare(a, b) == SortKey(b) - SortKey(a)

\* x placed after every element that must not follow it (Array.prototype.sort
\* is stable)
InsertSorted(sorted, x) ==
    LET after == {i \in 1..Len(sorted) : Compare(sorted[i], x) > 0}
        k == IF after = {} THEN Len(sorted) + 1
             ELSE CHOOSE i \in after : \A j \in after : i <= j
    IN  SubSeq(sorted, 1, k - 1) \o <<x>> \o SubSeq(sorted, k, Len(sorted))

RECURSIVE SortPrefix(_, _)
SortPrefix(xs, n) == IF n = 0 THEN << >> ELSE InsertSorted(SortPrefix(xs, n - 1), xs[n])

\* results.sort(...)
SortResults(xs) == SortPrefix(xs, Len(xs))

\* the early returns without the existsSync test: readFileSync raises instead
ScanEarlyNoExistsTest(file) ==
    IF ~file.exists \/ ExtractRaises(file) THEN "parse_failed"
    ELSE IF Len(extractPackagesFromConfig(file)) = 0 THEN "empty"
    ELSE "lookup"

\* the early returns of lines 149-160, in the order of the code
ScanEarly(file) ==
    IF ~file.exists THEN "not_found"
    ELSE IF ExtractRaises(file) THEN "parse_failed"
    ELSE IF Len(extractPackagesFromConfig(file)) = 0 THEN "empty"
    ELSE "lookup"

(***************************************************************************)
(* search_packages: the filter, the truncation and the match lines.        *)
(***************************************************************************)
\* String.prototype.toLowerCase
ToLowerCase(x) ==
    CASE x = "CREW" -> "crew"
      [] x = "CrewAI" -> "crewai"
      [] x = "Fetch" -> "fetch"
      [] OTHER -> x

\* String.prototype.includes, on lower-case strings of the model
Includes(hay, needle) ==
    \/ needle = ""
    \/ hay = needle
    \/ <<hay, needle>> \in {<<"crewai", "crew">>, <<"crew-tools", "crew">>,
                            <<"mcp-server-fetch", "fetch">>, <<"mcp-server-fetch", "mcp">>}

\* whether the filter callback raises on an element: toLowerCase of a non-string
MatchRaises(e) ==
    \/ Coalesce(e.slug, Str("")).t /= "string"
    \/ Coalesce(e.display_name, Str("")).t /= "string"

Matches(e, q) ==
    \/ Includes(ToLowerCase(Coalesce(e.slug, Str("")).s), q)
    \/ Includes(ToLowerCase(Coalesce(e.display_name, Str("")).s), q)

\* Array.prototype.filter
SelectMatches(all, q) == SelectSeq(all, LAMBDA e : Matches(e, q))

\* Array.prototype.slice(0, end) for an integer end
Slice0(xs, end) ==
    LET k == IF end < 0 THEN (IF Len(xs) + end < 0 THEN 0 ELSE Len(xs) + end)
             ELSE IF end > Len(xs) THEN Len(xs) ELSE end
    IN  SubSeq(xs, 1, k)

DefaultLimit == 10

\* .slice(0, limit ?? 10)
Truncate(xs, limit) == Slice0(xs, Coalesce(limit, Num(DefaultLimit)).n)

\* the number the "results for" header prints
HeaderCount(matches) == Len(matches)

MatchLineRaises(m) == Coalesce(m.latest_result, Str("?")).t /= "string"

MatchLine(m) ==
    Line("match", <<riskEmoji(m.latest_risk_score),
                    Render(Coalesce(m.display_name, m.slug)),
                    Render(Coalesce(m.trust_score, Str("?"))),
                    Render(Coalesce(m.latest_risk_score, Str("?"))),
                    ToUpperCase(Coalesce(m.latest_result, Str("?")).s)>>)

(***************************************************************************)
(* Bounds and the inputs drawn within them.                                *)
(***************************************************************************)
\* the largest number of candidates a scanned config yields
MaxCands == 2

\* the largest length of the package list the remote returns to a search
MaxList == 2

Names == {"crewai", "mcp-server-fetch"}

ValidJson(servers, alt) ==
    [exists |-> TRUE, json |-> TRUE, mcpServers |-> servers, mcp_servers |-> alt]

MissingFile ==
    [exists |-> FALSE, json |-> FALSE, mcpServers |-> NoServers, mcp_servers |-> NoServers]

BrokenFile ==
    [exists |-> TRUE, json |-> FALSE, mcpServers |-> NoServers, mcp_servers |-> NoServers]

Files ==
    {MissingFile, BrokenFile,
     ValidJson(NoServers, NoServers),
     ValidJson(Servers(<< >>), NoServers),
     ValidJson(Servers(<<EntryNull("fetch")>>), NoServers),
     ValidJson(Servers(<<Entry("fetch", <<Str("-y"), Num(1)>>)>>), NoServers),
     ValidJson(Servers(<<EntryNoArgs("crewai")>>), NoServers),
     ValidJson(Servers(<<Entry("fetch", <<Str("-y"), Str("mcp-server-fetch")>>)>>), NoServers),
     ValidJson(NoServers, Servers(<<Entry("fetch", <<Str("/opt/mcp/index.js"), Str("fetch")>>),
                                    EntryNoArgs("crewai")>>)),
     ValidJson(Servers(<<Entry("fetch", <<Str("npx"), Str("mcp-server-fetch")>>),
                         Entry("crewai", <<Str("--verbose"), Str("./build/index.js")>>)>>),
               NoServers),
     ValidJson(Servers(<<Entry("fetch", <<Str("Fetch"), Str("@openai/agents"),
                                          Str("@openai/agents")>>)>>),
               NoServers)}

\* the files whose scan stays within MaxCands lookups
ScanFiles == {f \in Files : ExtractRaises(f) \/ Len(extractPackagesFromConfig(f)) <= MaxCands}

SkillObj(slug, risk, verdict, audited, reports) ==
    JObj([NoProps EXCEPT !["slug"] = slug, !["latest_risk_score"] = risk,
                         !["latest_result"] = verdict, !["last_audited_at"] = audited,
                         !["total_reports"] = reports])

\* what the remote may answer to GET /skills/{name}, as parsed JSON
SkillPayloads ==
    {JNull, JNum(0), JObj(NoProps),
     SkillObj(Str("crewai"), Num(0), Str("pass"), Str("2026-02-02T09:30:00.000Z"), Num(1)),
     SkillObj(Undef, Num(40), Str("unsafe"), Null, Num(2)),
     SkillObj(Undef, Num(80), Str("unsafe"), Str("2025-12-31"), Num(3)),
     SkillObj(Undef, Null, Str("unknown"), Null, Num(0)),
     SkillObj(Undef, Num(80), Str("unsafe"), Str("not-a-date"), Num(1)),
     SkillObj(Undef, Num(40), Num(1), Null, Num(1))}

ListEntry(slug, display, risk, verdict) ==
    [NoProps EXCEPT !["slug"] = slug, !["display_name"] = display,
                    !["latest_risk_score"] = risk, !["latest_result"] = verdict]

ListEntries ==
    {ListEntry(Str("crewai"), Str("CrewAI"), Num(80), Str("unsafe")),
     ListEntry(Str("crew-tools"), Undef, Undef, Undef),
     ListEntry(Str("mcp-server-fetch"), Str("Fetch"), Null, Str("pass")),
     ListEntry(Str("crewai"), Null, Num(0), Num(1))}

RECURSIVE SeqsUpTo(_, _)
\* the sequences over S of length at most n
SeqsUpTo(S, n) ==
    IF n = 0 THEN {<< >>}
    ELSE LET shorter == SeqsUpTo(S, n - 1)
         IN  shorter \cup {Append(q, x) : q \in shorter, x \in S}

\* what the remote may answer to GET /skills
ListPayloads == {JNull, JObj(NoProps)} \cup {JArr(items) : items \in SeqsUpTo(ListEntries, MaxList)}

\* what the remote may answer to GET /health, POST /register and POST /reports
PlainPayloads == {JNull, JNum(0), JObj(NoProps)}

PayloadsFor(ep) ==
    CASE ep = "skill" -> SkillPayloads
      [] ep = "list" -> ListPayloads
      [] OTHER -> PlainPayloads

BodiesFor(ep) ==
    {DoctypeBody, HtmlTagBody, PlainBody, LongBody} \cup {JsonBody(v) : v \in PayloadsFor(ep)}

Statuses == {200, 404}

Queries == {"crew", "Fetch"}

Limits == {Undef, Num(-1), Num(0), Num(1), Num(2)}

(***************************************************************************)
(* State.                                                                  *)
(*   op       the operation invoked ("none" before the invocation)         *)
(*   input    its parameters [name, file, query, limit]                    *)
(*   hpc      the handler's position: "idle", "awaiting" (suspended at its *)
(*            await), "returned"                                           *)
(*   packages the candidates of a scan                                     *)
(*   calls    the outbound calls, one per awaited request: [ep, name,      *)
(*            timed, phase, timer, status, body, ret]                      *)
(*   results  the lookup records (after the sort, for a scan)              *)
(*   resp     what the handler gave back: [status, kind, msg, blocks,      *)
(*            count, risky, total]                                         *)
(*   overtaken whether some call settled while a call issued before it was *)
(*            still in flight: the calls completed out of issue order      *)
(***************************************************************************)
VARIABLES op, input, hpc, packages, calls, results, resp, overtaken

vars == <<op, input, hpc, packages, calls, results, resp, overtaken>>

NoInput == [name |-> "", file |-> MissingFile, query |-> "", limit |-> Undef]

NoResp ==
    [status |-> "pending", kind |-> "", msg |-> "", blocks |-> << >>,
     count |-> 0, risky |-> 0, total |-> 0]

\* return { content: [{ type: "text", text }] }
Text(kind, msg) == [NoResp EXCEPT !.status = "text", !.kind = kind, !.msg = msg]

\* an exception leaves the handler
Escaped == [NoResp EXCEPT !.status = "escaped", !.kind = "exception"]

\* apiFetch up to its first await: lines 26-32
apiFetchStart(ep, name) ==
    [ep |-> ep, name |-> name, timed |-> TRUE, phase |-> "headers", timer |-> "armed",
     status |-> 0, body |-> NoBody, ret |-> Pending]

\* a plain fetch(url, {method: "POST", ...}) up to its await
plainFetchStart(ep) ==
    [ep |-> ep, name |-> "", timed |-> FALSE, phase |-> "headers", timer |-> "none",
     status |-> 0, body |-> NoBody, ret |-> Pending]

\* a join that resumes on the first settled call (Promise.race, Promise.any)
AnySettled(cs) == \E i \in 1..Len(cs) : cs[i].phase = "settled"

\* Promise.all / await: every awaited call has settled
AllSettled(cs) == \A i \in 1..Len(cs) : cs[i].phase = "settled"

Init ==
    /\ op = "none"
    /\ input = NoInput
    /\ hpc = "idle"
    /\ packages = << >>
    /\ calls = << >>
    /\ results = << >>
    /\ resp = NoResp
    /\ overtaken = FALSE

(***************************************************************************)
(* The environment: the remote service, the network and the timers.        *)
(***************************************************************************)
\* call i settles while a call issued before it is still in flight
Overtakes(i) == \E j \in 1..(i - 1) : calls[j].phase /= "settled"

\* the response headers arrive; apiFetch resumes and clears its timer (line 33)
RemoteHeaders(i, status) ==
    /\ hpc = "awaiting"
    /\ calls[i].phase = "headers"
    /\ calls' = [calls EXCEPT ![i].phase = "body", ![i].status = status,
                              ![i].timer = IF calls[i].timed THEN "cleared" ELSE "none"]
    /\ UNCHANGED <<op, input, hpc, packages, results, resp, overtaken>>

\* the body arrives; apiFetch (or res.json()) finishes
RemoteBody(i, body) ==
    /\ hpc = "awaiting"
    /\ calls[i].phase = "body"
    /\ calls' = [calls EXCEPT ![i].phase = "settled", ![i].body = body,
                              ![i].ret = IF calls[i].timed
                                         THEN apiFetchBody(calls[i].status, body)
                                         ELSE resJson(body)]
    /\ overtaken' = (overtaken \/ Overtakes(i))
    /\ UNCHANGED <<op, input, hpc, packages, results, resp>>

\* the connection fails: fetch() or res.text() rejects
NetworkFail(i) ==
    /\ hpc = "awaiting"
    /\ calls[i].phase \in {"headers", "body"}
    /\ calls' = [calls EXCEPT ![i].phase = "settled",
                              ![i].ret = Throw(IF calls[i].phase = "headers"
                                               THEN NetworkMsg ELSE BodyReadMsg)]
    /\ overtaken' = (overtaken \/ Overtakes(i))
    /\ UNCHANGED <<op, input, hpc, packages, results, resp>>

\* the 10 s timer fires: controller.abort() rejects a fetch still in flight
TimerFire(i) ==
    /\ calls[i].timer = "armed"
    /\ calls' = [calls EXCEPT ![i].timer = "fired",
                              ![i].phase = IF calls[i].phase = "headers"
                                           THEN "settled" ELSE calls[i].phase,
                              ![i].ret = IF calls[i].phase = "headers"
                                         THEN Throw(AbortMsg) ELSE calls[i].ret]
    /\ overtaken' = (overtaken \/ (calls[i].phase = "headers" /\ Overtakes(i)))
    /\ UNCHANGED <<op, input, hpc, packages, results, resp>>

(***************************************************************************)
(* check_package                                                           *)
(***************************************************************************)
CheckPackage(name) ==
    /\ hpc = "idle"
    /\ op' = "check_package"
    /\ input' = [NoInput EXCEPT !.name = name]
    /\ calls' = <<apiFetchStart("skill", name)>>
    /\ hpc' = "awaiting"
    /\ UNCHANGED <<packages, results, resp, overtaken>>

CheckPackageReturn ==
    /\ op = "check_package" /\ hpc = "awaiting" /\ AllSettled(calls)
    /\ LET result == fetchSkill(input.name, calls[1].ret)
           out == formatResult(result)
       IN  /\ results' = <<result>>
           /\ resp' = IF out.threw THEN Escaped
                      ELSE [Text("record", "") EXCEPT !.blocks = <<out.lines>>]
    /\ hpc' = "returned"
    /\ UNCHANGED <<op, input, packages, calls, overtaken>>

(***************************************************************************)
(* scan_config                                                             *)
(***************************************************************************)
\* the records gathered as the lookups complete instead of by position: the
\* candidate order reversed when the lookups completed out of order
LookupRecordsAsCompleted(names, cs) ==
    [i \in 1..Len(names) |->
        LET k == IF overtaken THEN Len(names) + 1 - i ELSE i
        IN  fetchSkill(names[k], cs[k].ret)]

\* packages.map(fetchSkill), once every lookup has settled
LookupRecords(names, cs) == [i \in 1..Len(names) |-> fetchSkill(names[i], cs[i].ret)]

\* the handler up to its await: lines 148-161
ScanConfig(file) ==
    /\ hpc = "idle"
    /\ op' = "scan_config"
    /\ input' = [NoInput EXCEPT !.file = file]
    /\ LET early == ScanEarly(file)
           found == extractPackagesFromConfig(file)
       IN  IF early = "lookup"
           THEN /\ packages' = found
                /\ calls' = [i \in 1..Len(found) |-> apiFetchStart("skill", found[i])]
                /\ hpc' = "awaiting"
                /\ resp' = resp
           ELSE /\ packages' = << >>
                /\ calls' = << >>
                /\ hpc' = "returned"
                /\ resp' = Text(early, "")
    /\ UNCHANGED <<results, overtaken>>

\* the handler after Promise.all: lines 162-170
ScanJoin ==
    /\ op = "scan_config" /\ hpc = "awaiting" /\ AllSettled(calls)
    /\ LET fetched == LookupRecords(packages, calls)
           risky == {i \in 1..Len(fetched) : IsRisky(fetched[i])}
           sorted == SortResults(fetched)
           outs == [i \in 1..Len(sorted) |-> formatResult(sorted[i])]
       IN  /\ results' = sorted
           /\ resp' = IF \E i \in 1..Len(outs) : outs[i].threw THEN Escaped
                      ELSE [Text("report", "") EXCEPT
                               !.count = Len(fetched),
                               !.risky = Cardinality(risky),
                               !.blocks = [i \in 1..Len(outs) |-> outs[i].lines]]
    /\ hpc' = "returned"
    /\ UNCHANGED <<op, input, packages, calls, overtaken>>

(***************************************************************************)
(* search_packages                                                         *)
(***************************************************************************)
SearchPackages(query, limit) ==
    /\ hpc = "idle"
    /\ op' = "search_packages"
    /\ input' = [NoInput EXCEPT !.query = query, !.limit = limit]
    /\ calls' = <<apiFetchStart("list", "")>>
    /\ hpc' = "awaiting"
    /\ UNCHANGED <<packages, results, resp, overtaken>>

\* the handler after its await: lines 181-200
SearchReturn ==
    /\ op = "search_packages" /\ hpc = "awaiting" /\ AllSettled(calls)
    /\ LET ret == calls[1].ret
           all == ret.val.a
           q == ToLowerCase(input.query)
           matches == Truncate(SelectMatches(all, q), input.limit)
       IN  resp' =
             IF ret.kind = "throw" THEN Text("search_failed", ret.msg)
             ELSE IF ret.val.t /= "array" THEN Text("list_failed", "")
             ELSE IF \E k \in 1..Len(all) : MatchRaises(all[k])
             THEN Text("search_failed", "toLowerCase is not a function")
             ELSE IF Len(matches) = 0
             THEN [Text("no_matches", "") EXCEPT !.total = Len(all)]
             ELSE IF \E k \in 1..Len(matches) : MatchLineRaises(matches[k])
             THEN Text("search_failed", "toUpperCase is not a function")
             ELSE [Text("matches", "") EXCEPT
                      !.count = HeaderCount(matches),
                      !.total = Len(all),
                      !.blocks = [k \in 1..Len(matches) |-> <<MatchLine(matches[k])>>]]
    /\ hpc' = "returned"
    /\ UNCHANGED <<op, input, packages, calls, results, overtaken>>

(***************************************************************************)
(* get_stats                                                               *)
(***************************************************************************)
GetStats ==
    /\ hpc = "idle"
    /\ op' = "get_stats"
    /\ input' = NoInput
    /\ calls' = <<apiFetchStart("health", "")>>
    /\ hpc' = "awaiting"
    /\ UNCHANGED <<packages, results, resp, overtaken>>

\* the handler after its await: lines 211-226
GetStatsReturn ==
    /\ op = "get_stats" /\ hpc = "awaiting" /\ AllSettled(calls)
    /\ LET ret == calls[1].ret
       IN  resp' = IF ret.kind = "throw" THEN Text("caught", ret.msg)
                   ELSE IF Falsy(ret.val) THEN Text("unreachable", "")
                   ELSE Text("stats", "")
    /\ hpc' = "returned"
    /\ UNCHANGED <<op, input, packages, calls, results, overtaken>>

(***************************************************************************)
(* register and submit_report: a plain fetch, with no AbortController and  *)
(* no timer, then res.json().                                              *)
(***************************************************************************)
Register ==
    /\ hpc = "idle"
    /\ op' = "register"
    /\ input' = NoInput
    /\ calls' = <<plainFetchStart("register")>>
    /\ hpc' = "awaiting"
    /\ UNCHANGED <<packages, results, resp, overtaken>>

SubmitReport ==
    /\ hpc = "idle"
    /\ op' = "submit_report"
    /\ input' = NoInput
    /\ calls' = <<plainFetchStart("reports")>>
    /\ hpc' = "awaiting"
    /\ UNCHANGED <<packages, results, resp, overtaken>>

\* register after its awaits: data.error and data.agent_name raise on a null
\* payload, inside the try
RegisterReturn ==
    /\ op = "register" /\ hpc = "awaiting" /\ AllSettled(calls)
    /\ LET ret == calls[1].ret
       IN  resp' = IF ret.kind = "throw" THEN Text("caught", ret.msg)
                   ELSE IF ret.val.t = "null" THEN Text("caught", "Cannot read properties of null")
                   ELSE IF ~StatusOk(calls[1].status) THEN Text("register_failed", "")
                   ELSE Text("registered", "")
    /\ hpc' = "returned"
    /\ UNCHANGED <<op, input, packages, calls, results, overtaken>>

\* submit_report after its awaits: JSON.stringify(data) on failure, data.report_id
\* on success (raising on a null payload, inside the try)
SubmitReturn ==
    /\ op = "submit_report" /\ hpc = "awaiting" /\ AllSettled(calls)
    /\ LET ret == calls[1].ret
       IN  resp' = IF ret.kind = "throw" THEN Text("caught", ret.msg)
                   ELSE IF ~StatusOk(calls[1].status) THEN Text("submit_failed", "")
                   ELSE IF ret.val.t = "null" THEN Text("caught", "Cannot read properties of null")
                   ELSE Text("submitted", "")
    /\ hpc' = "returned"
    /\ UNCHANGED <<op, input, packages, calls, results, overtaken>>

Next ==
    \/ \E name \in Names : CheckPackage(name)
    \/ CheckPackageReturn
    \/ \E file \in ScanFiles : ScanConfig(file)
    \/ ScanJoin
    \/ \E query \in Queries : \E limit \in Limits : SearchPackages(query, limit)
    \/ SearchReturn
    \/ GetStats
    \/ GetStatsReturn
    \/ Register
    \/ RegisterReturn
    \/ SubmitReport
    \/ SubmitReturn
    \/ \E i \in DOMAIN calls : \E status \in Statuses : RemoteHeaders(i, status)
    \/ \E i \in DOMAIN calls : \E body \in BodiesFor(calls[i].ep) : RemoteBody(i, body)
    \/ \E i \in DOMAIN calls : NetworkFail(i)
    \/ \E i \in DOMAIN calls : TimerFire(i)

Spec == Init /\ [][Next]_vars

(***************************************************************************)
(* The same system under the fairness the runtime gives: an armed timer    *)
(* fires, and a handler whose awaited calls have all settled resumes.  The *)
(* remote service and the network owe nothing.                             *)
(***************************************************************************)
Timers == \E i \in DOMAIN calls : TimerFire(i)

Resume ==
    \/ CheckPackageReturn
    \/ ScanJoin
    \/ SearchReturn
    \/ GetStatsReturn
    \/ RegisterReturn
    \/ SubmitReturn

FairSpec == Spec /\ WF_vars(Timers) /\ WF_vars(Resume)

(***************************************************************************)
(* formatResult as a pure function: any record in, its lines out.          *)
(***************************************************************************)
FormatInputs ==
    [slug : {Str("crewai")},
     display_name : {Str("crewai")},
     trust_score : {Null, Num(90)},
     latest_risk_score : {Null, Num(0), Num(40), Num(80)},
     latest_result : {Str("pass"), Str("error"), Num(1)},
     total_findings : {Num(0)},
     total_reports : {Num(1), Num(2)},
     scan_type : {Str("unknown")},
     source_url : {Null, Str("https://github.com/crewAIInc/crewAI")},
     first_audited_at : {Null},
     last_audited_at : {Null, Str("2026-02-02T09:30:00.000Z"), Str("not-a-date")},
     error : {Undef, Str(""), Str(NotFoundMsg)}]

FormatInit ==
    /\ op = "formatResult"
    /\ input = NoInput
    /\ hpc = "idle"
    /\ packages = << >>
    /\ calls = << >>
    /\ results \in {<<r>> : r \in FormatInputs}
    /\ resp = NoResp
    /\ overtaken = FALSE

FormatApply ==
    /\ op = "formatResult" /\ hpc = "idle"
    /\ LET out == formatResult(results[1])
       IN  resp' = IF out.threw THEN Escaped
                   ELSE [Text("record", "") EXCEPT !.blocks = <<out.lines>>]
    /\ hpc' = "returned"
    /\ UNCHANGED <<op, input, packages, calls, results, overtaken>>

FormatNext == FormatApply

FormatSpec == FormatInit /\ [][FormatNext]_vars

(***************************************************************************)
(* extractPackagesFromConfig as a pure function: a config file in, its     *)
(* candidates out.  The files are those of the scans above and every file  *)
(* with one or two server entries holding at most MaxArgs launch arguments *)
(* in all, under either of the two server-map keys.                        *)
(***************************************************************************)
\* the largest number of launch arguments of a config file, all entries together
MaxArgs == 2

ExtractKeys == {"fetch", "node"}

ExtractTokens ==
    {"-y", "node", "npx", "/opt/mcp/index.js", "./build/index.js", "@openai/agents",
     "mcp-server-fetch", "fetch", "Fetch", ""}

ArgLists == SeqsUpTo({Str(x) : x \in ExtractTokens}, MaxArgs)

EntryLists ==
    {<<Entry(k, a)>> : k \in ExtractKeys, a \in ArgLists}
    \cup UNION {{<<Entry(k, SubSeq(a, 1, c)),
                    Entry(CHOOSE other \in ExtractKeys : other /= k, SubSeq(a, c + 1, Len(a)))>> :
                      c \in 0..Len(a)} : k \in ExtractKeys, a \in ArgLists}

ExtractInputs ==
    Files \cup {ValidJson(Servers(es), NoServers) : es \in EntryLists}
          \cup {ValidJson(NoServers, Servers(es)) : es \in EntryLists}

ExtractInit ==
    /\ op = "extractPackagesFromConfig"
    /\ input \in {[NoInput EXCEPT !.file = f] : f \in ExtractInputs}
    /\ hpc = "idle"
    /\ packages = << >>
    /\ calls = << >>
    /\ results = << >>
    /\ resp = NoResp
    /\ overtaken = FALSE

ExtractApply ==
    /\ op = "extractPackagesFromConfig" /\ hpc = "idle"
    /\ IF ExtractRaises(input.file)
       THEN packages' = << >> /\ resp' = Escaped
       ELSE /\ packages' = extractPackagesFromConfig(input.file)
            /\ resp' = [NoResp EXCEPT !.status = "value", !.kind = "candidates"]
    /\ hpc' = "returned"
    /\ UNCHANGED <<op, input, calls, results, overtaken>>

ExtractNext == ExtractApply

ExtractSpec == ExtractInit /\ [][ExtractNext]_vars

(***************************************************************************)
(* Properties.                                                             *)
(***************************************************************************)
Kinds(lines) == [i \in 1..Len(lines) |-> lines[i].k]

Glyph(block) == block[1].v[1]

\* the two sequences hold the same records, each as many times
SameRecords(xs, ys) ==
    /\ Len(xs) = Len(ys)
    /\ \A i \in 1..Len(xs) :
          Cardinality({j \in 1..Len(xs) : xs[j] = xs[i]})
              = Cardinality({j \in 1..Len(ys) : ys[j] = xs[i]})

RiskOrMinusOne(r) == IF r.latest_risk_score.t = "number" THEN r.latest_risk_score.n ELSE -1

\* C1: every handler ends by returning a text response; no exception leaves it,
\* whatever the remote answered and whatever the config file holds.
C1_NoExceptionEscapes == hpc = "returned" => resp.status = "text"

ApiFetchInFlight(i) == i \in DOMAIN calls /\ calls[i].timed /\ calls[i].phase /= "settled"

\* C2: the 10 s timeout covers the whole request, headers and body: every
\* apiFetch invocation ends, none stays pending forever.
C2_ApiFetchAlwaysEnds == \A i \in 1..MaxCands : ApiFetchInFlight(i) ~> ~ApiFetchInFlight(i)

\* C3: the record of a lookup, by adapter outcome: NotFound (an HTML body) gives
\* null scores, verdict "unknown" and the not-found error; a thrown error gives
\* verdict "error" and the error's message; a returned JSON value gives a record
\* with no error field.
C3_LookupRecordByOutcome ==
    op = "check_package" /\ hpc = "returned" =>
        LET c == calls[1]
            r == results[1]
        IN  /\ c.ret.kind = "value" /\ LooksLikeHtml(c.body) =>
                  /\ r.trust_score = Null /\ r.latest_risk_score = Null
                  /\ r.latest_result = Str("unknown")
                  /\ r.error = Str(NotFoundMsg)
            /\ c.ret.kind = "throw" =>
                  r.latest_result = Str("error") /\ r.error = Str(c.ret.msg)
            /\ c.ret.kind = "value" /\ c.ret.val.t /= "null" => r.error = Undef

\* C4: a scan issues exactly one lookup per candidate, answers only once every
\* lookup has settled, a lookup is aborted by its own timer only, and the report
\* holds exactly one record per candidate, a failed lookup's record being rendered
\* as a header and one warning line carrying the error.
C4_FanOutFanIn ==
    op = "scan_config" /\ hpc /= "idle" =>
        /\ Len(calls) = Len(packages)
        /\ \A i \in 1..Len(packages) :
              /\ calls[i].ep = "skill" /\ calls[i].name = packages[i]
              /\ calls[i].ret = Throw(AbortMsg) => calls[i].timer = "fired"
        /\ hpc = "returned" /\ packages /= << >> =>
              /\ \A i \in 1..Len(calls) : calls[i].phase = "settled"
              /\ Len(results) = Len(packages)
              /\ SameRecords(results, LookupRecords(packages, calls))
              /\ \A i \in 1..Len(packages) :
                    calls[i].ret.kind = "throw" =>
                        \E j \in 1..Len(results) :
                            /\ results[j].slug = Str(packages[i])
                            /\ results[j].error = Str(calls[i].ret.msg)
              /\ resp.status = "text" =>
                    /\ resp.kind = "report"
                    /\ Len(resp.blocks) = Len(packages)
                    /\ \A j \in 1..Len(results) :
                          results[j].error /= Undef =>
                              /\ Kinds(resp.blocks[j]) = <<"header", "warning">>
                              /\ resp.blocks[j][2].v = <<results[j].error.s>>

C4_Witness ==
    /\ op = "scan_config" /\ hpc = "returned" /\ resp.kind = "report"
    /\ Len(packages) = 2
    /\ calls[1].ret = Throw(AbortMsg)
    /\ calls[2].ret.kind = "value" /\ calls[2].ret.val.t = "object"
    /\ \E j \in 1..2 : results[j].error = Undef

\* C5: the POST calls of register and submit_report are time-bounded like every
\* other outbound call: when the remote never answers, the operation still
\* returns (a failure message).
C5_PostCallsBounded ==
    (op \in {"register", "submit_report"} /\ hpc = "awaiting") ~> (hpc = "returned")

\* C6: the records of a scan report are in non-increasing order of risk score with
\* a missing score counted as -1, so a null score comes after every present score
\* in 0..100 (0 included); the report's blocks are in that order.
C6_SortedByRisk ==
    op = "scan_config" /\ hpc = "returned" /\ packages /= << >> =>
        /\ SameRecords(results, LookupRecords(packages, calls))
        /\ \A i, j \in 1..Len(results) :
              i < j =>
                  /\ RiskOrMinusOne(results[i]) >= RiskOrMinusOne(results[j])
                  /\ ~(/\ results[i].latest_risk_score = Null
                       /\ results[j].latest_risk_score.t = "number"
                       /\ results[j].latest_risk_score.n \in 0..100)
        /\ resp.status = "text" =>
              \A j \in 1..Len(results) : resp.blocks[j] = formatResult(results[j]).lines

C6_Witness ==
    /\ op = "scan_config" /\ hpc = "returned" /\ resp.kind = "report"
    /\ Len(packages) = 2
    /\ calls[1].ret.kind = "throw"
    /\ results[1].latest_risk_score = Num(80) /\ results[1].slug = Str(packages[2])
    /\ results[2].latest_risk_score = Null

\* C7: in a scan report "packages checked" is the number of candidates and "with
\* elevated risk" is the number of records whose risk score is present and at
\* least 40, which are exactly the records with the medium or high glyph; a
\* record with an error has a null risk score, is not counted and carries the
\* unknown glyph.
C7_HeaderCounts ==
    op = "scan_config" /\ hpc = "returned" /\ resp.kind = "report" =>
        LET elevated == {j \in 1..Len(results) :
                            /\ results[j].latest_risk_score.t = "number"
                            /\ results[j].latest_risk_score.n >= 40}
        IN  /\ resp.count = Len(packages)
            /\ resp.risky = Cardinality(elevated)
            /\ elevated = {j \in 1..Len(results) : Glyph(resp.blocks[j]) \in {"medium", "high"}}
            /\ \A j \in 1..Len(results) :
                  results[j].error /= Undef =>
                      /\ results[j].latest_risk_score = Null
                      /\ j \notin elevated
                      /\ Glyph(resp.blocks[j]) = "unknown"

C7_Witness ==
    /\ op = "scan_config" /\ hpc = "returned" /\ resp.kind = "report"
    /\ resp.count = 2 /\ resp.risky = 1
    /\ results[1].latest_risk_score = Num(40)
    /\ results[2].error = Str(NotFoundMsg)

\* C8: scan_config tests existence, then parsing, then emptiness; each failure
\* returns its message with no lookup issued, and lookups are issued only when at
\* least one candidate was extracted.
C8_ScanFailureOrder ==
    op = "scan_config" =>
        LET f == input.file
        IN  /\ ~f.exists =>
                  hpc = "returned" /\ resp = Text("not_found", "") /\ calls = << >>
            /\ f.exists /\ ExtractRaises(f) =>
                  hpc = "returned" /\ resp = Text("parse_failed", "") /\ calls = << >>
            /\ f.exists /\ ~ExtractRaises(f) /\ ServerMap(f) = << >> =>
                  hpc = "returned" /\ resp = Text("empty", "") /\ calls = << >>
            /\ calls /= << >> =>
                  /\ f.exists /\ ~ExtractRaises(f)
                  /\ Len(packages) >= 1 /\ Len(calls) = Len(packages)

C8_Witness ==
    /\ op = "scan_config" /\ hpc = "returned"
    /\ input.file.exists /\ ~input.file.json
    /\ resp.kind = "parse_failed" /\ calls = << >>

\* C9: formatResult of a record whose error is set, to any string (the empty one
\* included), gives the header line and one warning line and nothing else.
C9_ErrorRecordOnlyWarning ==
    op = "formatResult" /\ hpc = "returned" /\ results[1].error.t = "string" =>
        resp.status = "text" /\ Kinds(resp.blocks[1]) = <<"header", "warning">>

\* C10: a search with limit L >= 1 over a list with M > L matching entries prints
\* exactly L match lines and a header that states M, the total number of matches.
C10_HeaderStatesAllMatches ==
    LET found == SelectMatches(calls[1].ret.val.a, ToLowerCase(input.query))
    IN  /\ op = "search_packages" /\ hpc = "returned" /\ resp.kind = "matches"
        /\ input.limit.t = "number" /\ input.limit.n >= 1
        /\ Len(found) > input.limit.n
        => Len(resp.blocks) = input.limit.n /\ resp.count = Len(found)

\* C11: a search that fetched the list answers "no matches" (with the size of the
\* whole list) exactly when no entry contains the query in its slug or display
\* name; for every accepted limit, 0 and negative ones included, a list with a
\* matching entry gives a match list, and no match is dropped when the matches
\* are at most limit.
C11_NoMatchesIffNoneMatch ==
    op = "search_packages" /\ hpc = "returned" /\ resp.kind \in {"no_matches", "matches"} =>
        LET all == calls[1].ret.val.a
            found == SelectMatches(all, ToLowerCase(input.query))
            lim == Coalesce(input.limit, Num(DefaultLimit)).n
        IN  /\ resp.kind = "no_matches" <=> found = << >>
            /\ resp.kind = "no_matches" => resp.total = Len(all)
            /\ Len(found) <= lim => Len(resp.blocks) = Len(found)

\* the elements of a sequence
Elems(xs) == {xs[i] : i \in DOMAIN xs}

\* the position of x in a sequence that holds it once
PosIn(x, xs) == CHOOSE i \in DOMAIN xs : xs[i] = x

\* the position of the first occurrence of x in a sequence that holds it
FirstIndex(x, xs) == CHOOSE i \in DOMAIN xs : xs[i] = x /\ \A j \in 1..(i - 1) : xs[j] /= x

Extracted == op = "extractPackagesFromConfig" /\ hpc = "returned" /\ resp.status = "value"

\* what the entries before the i-th one contribute, keys and accepted arguments
SeenBefore(entries, i) == Elems(Pushed(SubSeq(entries, 1, i - 1)))

\* C12, key first: for each server entry the entry's key is recorded first and
\* its accepted launch arguments after it: in the result a server key precedes
\* every argument first seen in that same entry.
C12_KeyBeforeItsArgs ==
    Extracted =>
        LET entries == ServerMap(input.file)
        IN  \A i \in 1..Len(entries) :
                \A a \in Elems(ArgsOf(entries[i].args)) :
                    a \notin SeenBefore(entries, i) /\ a /= entries[i].key =>
                        PosIn(entries[i].key, packages) < PosIn(a, packages)

\* C12, arguments first: for each server entry the accepted launch arguments are
\* recorded first and the entry's key after them: in the result every accepted
\* argument of an entry precedes that entry's key, whenever the key was not
\* already recorded as an argument of the same or of an earlier entry.
C12_ArgsBeforeTheirKey ==
    Extracted =>
        LET entries == ServerMap(input.file)
        IN  \A i \in 1..Len(entries) :
                LET key == entries[i].key
                    own == Elems(ArgsOf(entries[i].args))
                IN  key \notin SeenBefore(entries, i) /\ key \notin own =>
                        \A a \in own : PosIn(a, packages) < PosIn(key, packages)

C12_Witness ==
    /\ Extracted
    /\ Len(ServerMap(input.file)) = 2
    /\ ServerMap(input.file)[2] = Entry("fetch", <<Str("npx"), Str("@openai/agents")>>)
    /\ packages = <<"node", "@openai/agents", "fetch">>

\* the config of the example: {"mcpServers": {"fetch": {"args": ["-y", "mcp-server-fetch"]}}}
FetchConfig ==
    ValidJson(Servers(<<Entry("fetch", <<Str("-y"), Str("mcp-server-fetch")>>)>>), NoServers)

\* C13: a config whose only server is "fetch" with the arguments "-y" and
\* "mcp-server-fetch" yields exactly the candidates "mcp-server-fetch", "fetch",
\* in that order.
C13_FetchExample ==
    op = "extractPackagesFromConfig" /\ hpc = "returned" /\ input.file = FetchConfig =>
        resp.status = "value" /\ packages = <<"mcp-server-fetch", "fetch">>

C13_Witness ==
    /\ op = "extractPackagesFromConfig" /\ hpc = "returned" /\ input.file = FetchConfig
    /\ Len(packages) = 2

\* C14: the candidates hold no duplicate, they are the identifiers pushed during
\* the scan of the entries, and each stands at the position of its first
\* occurrence in scan order: a token met in several servers, as an argument or
\* as a key, gives one candidate.
C14_FirstSeenNoDuplicates ==
    Extracted =>
        LET scan == Pushed(ServerMap(input.file))
        IN  /\ \A i, j \in 1..Len(packages) : i /= j => packages[i] /= packages[j]
            /\ Elems(packages) = Elems(scan)
            /\ \A i, j \in 1..Len(packages) :
                  i < j => FirstIndex(packages[i], scan) < FirstIndex(packages[j], scan)

C14_Witness ==
    /\ Extracted
    /\ Pushed(ServerMap(input.file)) = <<"@openai/agents", "node", "@openai/agents", "fetch">>
    /\ packages = <<"@openai/agents", "node", "fetch">>

\* C15: a launch argument is a candidate exactly when it does not start with a
\* dash, a slash or a dot, its first character is a lowercase letter or an
\* at-sign, and it is none of "-y", "node", "npx"; the server keys are candidates
\* unconditionally, and nothing else is.
C15_ArgumentFilter ==
    Extracted =>
        LET entries == ServerMap(input.file)
            keys == {entries[i].key : i \in 1..Len(entries)}
            args == UNION {{entries[i].args[j].s : j \in 1..Len(entries[i].args)} :
                             i \in 1..Len(entries)}
            ok(a) == /\ FirstChar(a) \notin {"-", "/", "."}
                     /\ FirstChar(a) \in LowerOrAt
                     /\ a \notin {"-y", "node", "npx"}
        IN  /\ keys \subseteq Elems(packages)
            /\ \A a \in args \ keys : a \in Elems(packages) <=> ok(a)
            /\ Elems(packages) \subseteq keys \cup args

C15_Witness ==
    /\ Extracted
    /\ ServerMap(input.file) = <<Entry("node", <<Str("npx"), Str("@openai/agents")>>)>>
    /\ packages = <<"@openai/agents", "node">>

\* C16: apiFetch puts every response whose body arrived into exactly one of three
\* classes: a body that begins with a doctype or an html tag gives NotFound (null
\* returned, nothing raised) whatever the status; a non-success status with any
\* other body raises an error whose message carries the status code and the
\* body's first 200 characters at most; a success status with any other body is
\* parsed as JSON, the value returned or the parse error raised.
C16_ResponseClasses ==
    \A i \in DOMAIN calls :
        calls[i].timed /\ calls[i].body /= NoBody =>
            LET c == calls[i]
                text == c.body.text
                html == \/ Len(text) >= 9 /\ SubSeq(text, 1, 9) = "<!DOCTYPE"
                        \/ Len(text) >= 5 /\ SubSeq(text, 1, 5) = "<html"
                success == c.status \in 200..299
                kept == IF Len(text) < 200 THEN Len(text) ELSE 200
            IN  /\ c.phase = "settled"
                /\ html => c.ret = Return(JNull)
                /\ ~html /\ ~success =>
                      /\ c.ret.kind = "throw"
                      /\ c.ret.msg = "HTTP " \o ToString(c.status) \o ": " \o SubSeq(text, 1, kept)
                /\ ~html /\ success =>
                      IF c.body.cls = "json" THEN c.ret = Return(c.body.val)
                      ELSE c.ret = Throw(ParseMsg)

C16_Witness ==
    \E i \in DOMAIN calls :
        /\ calls[i].timed /\ calls[i].status = 404
        /\ Len(calls[i].body.text) > 200
        /\ calls[i].ret.kind = "throw" /\ Len(calls[i].ret.msg) = 210

\* the one-to-one maps of 1..n onto itself
Perms(n) == {p \in [1..n -> 1..n] : \A a, b \in 1..n : a /= b => p[a] /= p[b]}

\* C17: a scan report is a function of the candidates and of each candidate's
\* lookup result alone: in whatever order the concurrent lookups completed, the
\* records are those of the candidates sorted by descending risk (a missing
\* score as -1), records with equal keys in candidate order, and the header and
\* the blocks are computed from these records.
C17_ReportIgnoresCompletionOrder ==
    op = "scan_config" /\ hpc = "returned" /\ packages /= << >> =>
        LET n == Len(packages)
            rec == [i \in 1..n |-> fetchSkill(packages[i], calls[i].ret)]
            key == [i \in 1..n |-> RiskOrMinusOne(rec[i])]
        IN  /\ Len(results) = n
            /\ \E p \in Perms(n) :
                  /\ \A k \in 1..n : results[k] = rec[p[k]]
                  /\ \A k, l \in 1..n :
                        k < l => \/ key[p[k]] > key[p[l]]
                                 \/ key[p[k]] = key[p[l]] /\ p[k] < p[l]
            /\ resp.status = "text" =>
                  /\ resp.count = n
                  /\ resp.risky = Cardinality({i \in 1..n : key[i] >= 40})
                  /\ resp.blocks = [k \in 1..n |-> formatResult(results[k]).lines]

C17_Witness ==
    /\ op = "scan_config" /\ hpc = "returned" /\ resp.kind = "report"
    /\ overtaken
    /\ Len(packages) = 2
    /\ results[1].latest_risk_score = Num(40) /\ results[2].latest_risk_score = Num(40)
    /\ results[1].slug = Str(packages[1]) /\ results[2].slug = Str(packages[2])

\* C18: in a search response the glyph of every match line agrees with the risk
\* the line shows: an entry without a risk score (null, or the field absent),
\* shown as "Risk: ?", carries the unknown glyph, never the low, medium or high
\* one.
C18_GlyphAgreesWithRisk ==
    op = "search_packages" /\ hpc = "returned" /\ resp.kind = "matches" =>
        \A k \in 1..Len(resp.blocks) :
            LET shown == resp.blocks[k][1].v[4]
                glyph == Glyph(resp.blocks[k])
            IN  /\ shown = "?" => glyph = "unknown"
                /\ shown /= "?" => glyph \in {"low", "medium", "high"}

\* C19: check_package reports "Package not found in AgentAudit database" and
\* get_stats reports "AgentAudit API unreachable" only when apiFetch returned
\* NotFound for an HTML body: a success response with a valid JSON body, whatever
\* its value (null, false, 0, ""), is never reported as not found or unreachable.
C19_NotFoundOnlyForHtml ==
    /\ op = "check_package" /\ hpc = "returned" /\ results[1].error = Str(NotFoundMsg) =>
          LooksLikeHtml(calls[1].body)
    /\ op = "get_stats" /\ hpc = "returned" /\ resp.kind = "unreachable" =>
          LooksLikeHtml(calls[1].body)

\* C20: once an apiFetch invocation has ended in any way (a value, NotFound, a
\* failed or an aborted request), its timeout timer is no longer pending: no
\* timer outlives its call.
C20_NoTimerOutlivesCall ==
    \A i \in DOMAIN calls :
        calls[i].timed /\ calls[i].phase = "settled" => calls[i].timer /= "armed"

=============================================================================
